---- MODULE Spec2Model ----
(***************************************************************************)
(* Model of the generative-ai-js client glue code:                         *)
(*   - GoogleAICacheManager (src/src/server/cache-manager.ts): the five    *)
(*     REST operations on cached content, with their local validation and  *)
(*     their string normalisations;                                        *)
(*   - the chat sample driver (src/unnamed/part_000).                      *)
(* JavaScript strings are sequences of one-character strings.  An object   *)
(* is a function whose DOMAIN is the set of its own keys; an optional      *)
(* argument is a record [has, v].                                          *)
(***************************************************************************)
EXTENDS Integers, Sequences, FiniteSets, TLC

\* ---------------------------------------------------------------- bounds
MaxPieces == 3      \* pieces concatenated into a resource name
MaxModelLen == 2    \* characters of a model identifier
MaxFieldLen == 2    \* characters of an update-mask field name
MaxMask == 2        \* entries of an update mask
MaxTtl == 1         \* small ttlSeconds values 0..MaxTtl (300 is added)
MaxPage == 1        \* pageSize values 0..MaxPage

\* ------------------------------------------------------- string helpers
CachedContentsPrefix ==
  <<"c","a","c","h","e","d","C","o","n","t","e","n","t","s","/">>
ModelsPrefix == <<"m","o","d","e","l","s","/">>
Slash == <<"/">>
Comma == <<",">>

UpperLetters == <<"A","B","C","D","E","F","G","H","I","J","K","L","M",
                  "N","O","P","Q","R","S","T","U","V","W","X","Y","Z">>
LowerLetters == <<"a","b","c","d","e","f","g","h","i","j","k","l","m",
                  "n","o","p","q","r","s","t","u","v","w","x","y","z">>
Digits == <<"0","1","2","3","4","5","6","7","8","9">>

\* /[A-Z]/ : is c an ASCII upper-case letter
IsUpper(c) == \E i \in 1..Len(UpperLetters) : UpperLetters[i] = c

\* letter.toLowerCase() for an ASCII upper-case letter
toLowerCase(c) ==
  LowerLetters[CHOOSE i \in 1..Len(UpperLetters) : UpperLetters[i] = c]

\* String.prototype.startsWith
startsWith(s, p) == Len(s) >= Len(p) /\ SubSeq(s, 1, Len(p)) = p

\* String.prototype.indexOf, 1-based; 0 when sub does not occur in s
indexOf(s, sub) ==
  LET hits == { i \in 1..(Len(s) - Len(sub) + 1) :
                  SubSeq(s, i, i + Len(sub) - 1) = sub }
  IN IF hits = {} THEN 0 ELSE CHOOSE i \in hits : \A j \in hits : i <= j

\* String.prototype.includes
includes(s, sub) == indexOf(s, sub) # 0

\* String.prototype.split with a non-empty separator
RECURSIVE split(_, _)
split(s, sep) ==
  LET i == indexOf(s, sep)
  IN IF i = 0 THEN <<s>>
     ELSE <<SubSeq(s, 1, i - 1)>> \o split(SubSeq(s, i + Len(sep), Len(s)), sep)

\* Array.prototype.join
RECURSIVE join(_, _)
join(xs, sep) ==
  IF xs = <<>> THEN <<>>
  ELSE IF Len(xs) = 1 THEN xs[1]
  ELSE xs[1] \o sep \o join(Tail(xs), sep)

\* decimal rendering of an integer, as in a template literal `${n}`
RECURSIVE NatToString(_)
NatToString(n) ==
  IF n < 10 THEN <<Digits[n + 1]>>
  ELSE NatToString(n \div 10) \o <<Digits[(n % 10) + 1]>>

NumberToString(n) == IF n < 0 THEN <<"-">> \o NatToString(0 - n) ELSE NatToString(n)

\* ------------------------------------------------------- object helpers
EmptyObj == [k \in {} |-> 0]
Some(v) == [has |-> TRUE, v |-> v]
NoStr == [has |-> FALSE, v |-> <<>>]
NoNum == [has |-> FALSE, v |-> 0]
Field(k, o) == IF o.has THEN (k :> o.v) ELSE EmptyObj
Has(o, k) == k \in DOMAIN o
\* JavaScript truthiness of a numeric / string property (absent is falsy)
TruthyNum(o, k) == Has(o, k) /\ o[k] # 0
TruthyStr(o, k) == Has(o, k) /\ o[k] # <<>>
SetKey(o, k, v) == (k :> v) @@ o
DeleteKey(o, k) == [x \in (DOMAIN o) \ {k} |-> o[x]]

\* ------------------------------------------------------------ inputs
RECURSIVE SeqsUpTo(_, _)
SeqsUpTo(S, n) ==
  IF n = 0 THEN {<<>>}
  ELSE LET prev == SeqsUpTo(S, n - 1)
       IN prev \cup { Append(p, x) : p \in { q \in prev : Len(q) = n - 1 }, x \in S }

RECURSIVE Flatten(_)
Flatten(ps) == IF ps = <<>> THEN <<>> ELSE Head(ps) \o Flatten(Tail(ps))

NamePieces == {CachedContentsPrefix, <<"a">>}
NameStrings == { Flatten(ps) : ps \in SeqsUpTo(NamePieces, MaxPieces) }
NameArgs == {NoStr} \cup { Some(s) : s \in NameStrings }

ModelStrings == SeqsUpTo({"g", "/"}, MaxModelLen)
ModelArgs == {NoStr} \cup { Some(s) : s \in ModelStrings }

TtlArgs == {NoNum} \cup { Some(n) : n \in (0..MaxTtl) \cup {300} }
ExpireArgs == {NoStr, Some(<<>>), Some(<<"2","0","3","0">>)}

ExpireTimeField == <<"e","x","p","i","r","e","T","i","m","e">>
FieldNames == SeqsUpTo({"T"}, MaxFieldLen) \cup {ExpireTimeField}
MaskArgs == {[has |-> FALSE, v |-> <<>>]}
            \cup { Some(m) : m \in SeqsUpTo(FieldNames, MaxMask) }

PageSizeArgs == {NoNum} \cup { Some(n) : n \in 0..MaxPage }
PageTokenArgs == {NoStr, Some(<<>>), Some(<<"t">>)}

\* ------------------------------------------------------------- state
VARIABLES
  pc,         \* "idle" | "awaiting" | "done": position of the manager's caller
  op,         \* the method of the latest call
  argName,    \* its name argument (get / update / delete)
  argObj,     \* its object argument (createOptions / cachedContent / listParams)
  argMask,    \* its updateMask (update)
  netCalls,   \* invocations of makeServerRequest made by the latest call
  reqTask,    \* RpcTask of the request handed to makeServerRequest
  reqPath,    \* segment given to url.appendPath
  reqParams,  \* <<key, value>> pairs given to url.appendParam, in order
  reqBody,    \* object given to JSON.stringify
  result,     \* outcome of the latest call
  step,       \* sample driver: index of the next statement of runAll
  phase,      \* sample driver: "call" | "awaitResult" | "iterating" | "exit"
  chatReqs,   \* chat requests issued so far, in order of issue
  stdout,     \* <<request, chunk>> pairs written so far (chunk 0: a whole response)
  runResult   \* "running" | "fulfilled" | "rejected": the promise of runAll()

cvars == <<pc, op, argName, argObj, argMask, netCalls,
           reqTask, reqPath, reqParams, reqBody, result>>
dvars == <<step, phase, chatReqs, stdout, runResult>>
vars == <<pc, op, argName, argObj, argMask, netCalls,
          reqTask, reqPath, reqParams, reqBody, result,
          step, phase, chatReqs, stdout, runResult>>

\* ------------------------------------------------ pure parts of the code
\* variant of parseCacheNameThrows that tests only for an absent name
parseCacheNameThrowsAbsentOnly(name) == ~name.has

\* parseCacheName: the error test
parseCacheNameThrows(name) == ~name.has \/ name.v = <<>>

\* parseCacheName: the returned segment
parseCacheName(name) ==
  IF startsWith(name.v, CachedContentsPrefix)
  THEN split(name.v, CachedContentsPrefix)[2]
  ELSE name.v

\* variant of camelToSnake without the g flag: only the first match is replaced
camelToSnakeFirstOnly(str) ==
  LET ups == { i \in 1..Len(str) : IsUpper(str[i]) }
  IN IF ups = {} THEN str
     ELSE LET i == CHOOSE x \in ups : \A y \in ups : x <= y
          IN SubSeq(str, 1, i - 1) \o <<"_", toLowerCase(str[i])>>
             \o SubSeq(str, i + 1, Len(str))

\* camelToSnake: str.replace(/[A-Z]/g, letter => `_${letter.toLowerCase()}`)
RECURSIVE camelToSnake(_)
camelToSnake(str) ==
  IF str = <<>> THEN <<>>
  ELSE (IF IsUpper(Head(str)) THEN <<"_", toLowerCase(Head(str))>>
        ELSE <<Head(str)>>) \o camelToSnake(Tail(str))

\* updateMask.map(camelToSnake).join(",")
updateMaskParam(mask) == join([i \in 1..Len(mask) |-> camelToSnake(mask[i])], Comma)

\* `${ttlSeconds}s`
ttlString(n) == NumberToString(n) \o <<"s">>

\* create: the ttlSeconds / expireTime conflict test
createThrowsConflict(createOptions) ==
  TruthyNum(createOptions, "ttlSeconds") /\ TruthyStr(createOptions, "expireTime")

\* create: newCachedContent after the ttlSeconds block
createTtl(createOptions) ==
  IF TruthyNum(createOptions, "ttlSeconds")
  THEN DeleteKey(SetKey(createOptions, "ttl", ttlString(createOptions["ttlSeconds"])),
                 "ttlSeconds")
  ELSE createOptions

\* variant of createThrowsNoModel that accepts an empty model string
createThrowsNoModelAbsentOnly(newCachedContent) == ~Has(newCachedContent, "model")

\* create: the missing-model test
createThrowsNoModel(newCachedContent) == ~TruthyStr(newCachedContent, "model")

\* variant of createModel that tests for the models/ prefix instead of a slash
createModelPrefixTest(model) ==
  IF ~startsWith(model, ModelsPrefix) THEN ModelsPrefix \o model ELSE model

\* create: the model normalisation
createModel(model) == IF ~includes(model, Slash) THEN ModelsPrefix \o model ELSE model

\* update: formattedCachedContent
updateBody(cachedContent) ==
  IF TruthyNum(cachedContent, "ttlSeconds")
  THEN DeleteKey(SetKey(cachedContent, "ttl", ttlString(cachedContent["ttlSeconds"])),
                 "ttlSeconds")
  ELSE cachedContent

\* outcomes of one makeServerRequest invocation
makeServerRequest == {"ok", "RequestError"}

\* ------------------------------------------------------------ actions
InitDriver ==
  /\ step = 1
  /\ phase = "call"
  /\ chatReqs = <<>>
  /\ stdout = <<>>
  /\ runResult = "running"

Init ==
  /\ InitDriver
  /\ pc = "idle"
  /\ op = "none"
  /\ argName = NoStr
  /\ argObj = EmptyObj
  /\ argMask = [has |-> FALSE, v |-> <<>>]
  /\ netCalls = 0
  /\ reqTask = "none"
  /\ reqPath = <<>>
  /\ reqParams = <<>>
  /\ reqBody = EmptyObj
  /\ result = "none"

\* a call that throws before any request
Throw(o, name, obj, mask, err) ==
  /\ pc' = "done"
  /\ op' = o /\ argName' = name /\ argObj' = obj /\ argMask' = mask
  /\ netCalls' = 0
  /\ reqTask' = "none" /\ reqPath' = <<>> /\ reqParams' = <<>> /\ reqBody' = EmptyObj
  /\ result' = err
  /\ UNCHANGED dvars

\* a call that hands one request to makeServerRequest and awaits it
Send(o, name, obj, mask, task, path, params, body) ==
  /\ pc' = "awaiting"
  /\ op' = o /\ argName' = name /\ argObj' = obj /\ argMask' = mask
  /\ netCalls' = 1
  /\ reqTask' = task /\ reqPath' = path /\ reqParams' = params /\ reqBody' = body
  /\ result' = "none"
  /\ UNCHANGED dvars

create(createOptions) ==
  /\ pc = "idle"
  /\ LET none == [has |-> FALSE, v |-> <<>>]
         newCachedContent == createTtl(createOptions)
     IN IF createThrowsConflict(createOptions)
        THEN Throw("create", NoStr, createOptions, none, "GoogleGenerativeAIRequestInputError")
        ELSE IF createThrowsNoModel(newCachedContent)
        THEN Throw("create", NoStr, createOptions, none, "GoogleGenerativeAIRequestInputError")
        ELSE Send("create", NoStr, createOptions, none, "CREATE", <<>>, <<>>,
                  SetKey(newCachedContent, "model", createModel(newCachedContent["model"])))

list(listParams) ==
  /\ pc = "idle"
  /\ LET none == [has |-> FALSE, v |-> <<>>]
         p1 == IF TruthyNum(listParams, "pageSize")
               THEN << <<"pageSize", NumberToString(listParams["pageSize"])>> >>
               ELSE <<>>
         p2 == IF TruthyStr(listParams, "pageToken")
               THEN << <<"pageToken", listParams["pageToken"]>> >>
               ELSE <<>>
     IN Send("list", NoStr, listParams, none, "LIST", <<>>, p1 \o p2, EmptyObj)

get(name) ==
  /\ pc = "idle"
  /\ LET none == [has |-> FALSE, v |-> <<>>]
     IN IF parseCacheNameThrows(name)
        THEN Throw("get", name, EmptyObj, none, "GoogleGenerativeAIError")
        ELSE Send("get", name, EmptyObj, none, "GET", parseCacheName(name), <<>>, EmptyObj)

update(name, cachedContent, updateMask) ==
  /\ pc = "idle"
  /\ IF parseCacheNameThrows(name)
     THEN Throw("update", name, cachedContent, updateMask, "GoogleGenerativeAIError")
     ELSE Send("update", name, cachedContent, updateMask, "UPDATE", parseCacheName(name),
               IF updateMask.has
               THEN << <<"update_mask", updateMaskParam(updateMask.v)>> >>
               ELSE <<>>,
               updateBody(cachedContent))

delete(name) ==
  /\ pc = "idle"
  /\ LET none == [has |-> FALSE, v |-> <<>>]
     IN IF parseCacheNameThrows(name)
        THEN Throw("delete", name, EmptyObj, none, "GoogleGenerativeAIError")
        ELSE Send("delete", name, EmptyObj, none, "DELETE", parseCacheName(name), <<>>, EmptyObj)

\* variant of Settle that sends a failed request once more
SettleRetry(outcome) ==
  /\ pc = "awaiting"
  /\ IF outcome = "RequestError" /\ netCalls < 2
     THEN netCalls' = netCalls + 1 /\ UNCHANGED <<pc, result>>
     ELSE pc' = "done" /\ result' = outcome /\ UNCHANGED netCalls
  /\ UNCHANGED <<op, argName, argObj, argMask, reqTask, reqPath, reqParams, reqBody>>
  /\ UNCHANGED dvars

\* the continuation of `await makeServerRequest(...)`: the method returns the
\* response, or the rejection propagates to the caller (no try/catch)
Settle(outcome) ==
  /\ pc = "awaiting"
  /\ pc' = "done"
  /\ result' = outcome
  /\ UNCHANGED <<op, argName, argObj, argMask, netCalls,
                 reqTask, reqPath, reqParams, reqBody>>
  /\ UNCHANGED dvars

\* the caller has its result; the manager keeps nothing of a call (its only
\* fields are apiKey and _requestOptions), so the next call starts afresh
Return ==
  /\ pc = "done"
  /\ pc' = "idle"
  /\ op' = "none" /\ argName' = NoStr /\ argObj' = EmptyObj
  /\ argMask' = [has |-> FALSE, v |-> <<>>]
  /\ netCalls' = 0
  /\ reqTask' = "none" /\ reqPath' = <<>> /\ reqParams' = <<>> /\ reqBody' = EmptyObj
  /\ result' = "none"
  /\ UNCHANGED dvars

CreateOptionsArgs ==
  { Field("ttlSeconds", t) @@ Field("expireTime", e) @@ Field("model", m) :
      t \in TtlArgs, e \in ExpireArgs, m \in ModelArgs }
CachedContentArgs ==
  { Field("ttlSeconds", t) @@ Field("expireTime", e) : t \in TtlArgs, e \in ExpireArgs }
ListParamsArgs ==
  { Field("pageSize", s) @@ Field("pageToken", t) : s \in PageSizeArgs, t \in PageTokenArgs }

Create == pc = "idle" /\ \E o \in CreateOptionsArgs : create(o)
List == pc = "idle" /\ \E p \in ListParamsArgs : list(p)
Get == pc = "idle" /\ \E n \in NameArgs : get(n)
Update == pc = "idle" /\ \E n \in NameArgs, c \in CachedContentArgs, m \in MaskArgs : update(n, c, m)
Delete == pc = "idle" /\ \E n \in NameArgs : delete(n)
Respond == pc = "awaiting" /\ \E outcome \in makeServerRequest : Settle(outcome)

Next == Create \/ List \/ Get \/ Update \/ Delete \/ Respond \/ Return

Spec == Init /\ [][Next]_vars

\* ------------------------------------------------------ sample driver
MaxChunks == 2      \* chunks one streamed response may deliver

\* runAll: the statements of chat(), chatStreaming(), chatStreamingWithImages()
\* in the order runAll awaits them
Program == <<
  [fn |-> "chat", ins |-> "startChat"],
  [fn |-> "chat", ins |-> "sendMessage"],
  [fn |-> "chat", ins |-> "sendMessage"],
  [fn |-> "chatStreaming", ins |-> "startChat"],
  [fn |-> "chatStreaming", ins |-> "sendMessageStream"],
  [fn |-> "chatStreaming", ins |-> "sendMessageStream"],
  [fn |-> "chatStreamingWithImages", ins |-> "startChat"],
  [fn |-> "chatStreamingWithImages", ins |-> "sendMessageStream"],
  [fn |-> "chatStreamingWithImages", ins |-> "readFileSync"],
  [fn |-> "chatStreamingWithImages", ins |-> "sendMessageStream"] >>

\* a chat request as the SDK hands it to the transport
NewChatRequest(kind) ==
  [kind |-> kind, status |-> "pending", arrived |-> 0, read |-> 0, ended |-> FALSE]

\* a request is outstanding until its caller has taken the whole response
Outstanding(r) == ~r.ended

Running == runResult = "running"

\* startChat(history): model.startChat, no request
startChat ==
  /\ Running /\ phase = "call" /\ step <= Len(Program)
  /\ Program[step].ins = "startChat"
  /\ step' = step + 1
  /\ UNCHANGED <<phase, chatReqs, stdout, runResult>>

\* fs.readFileSync of the image: returns the bytes or throws
readFileSync(okRead) ==
  /\ Running /\ phase = "call" /\ step <= Len(Program)
  /\ Program[step].ins = "readFileSync"
  /\ IF okRead
     THEN step' = step + 1 /\ UNCHANGED <<phase, runResult>>
     ELSE phase' = "exit" /\ runResult' = "rejected" /\ UNCHANGED step
  /\ UNCHANGED <<chatReqs, stdout>>

\* sendMessage / sendMessageStream up to their first await: the SDK call
\* issues one request
sendCall ==
  /\ Running /\ phase = "call" /\ step <= Len(Program)
  /\ Program[step].ins \in {"sendMessage", "sendMessageStream"}
  /\ chatReqs' = Append(chatReqs, NewChatRequest(Program[step].ins))
  /\ phase' = "awaitResult"
  /\ UNCHANGED <<step, stdout, runResult>>

\* the transport: the response of a pending request arrives (whole, for
\* sendMessage; its start, for sendMessageStream) or the request fails
serverRespond(i, okResp) ==
  /\ chatReqs[i].status = "pending"
  /\ chatReqs' = [chatReqs EXCEPT ![i].status =
       IF ~okResp THEN "failed"
       ELSE IF chatReqs[i].kind = "sendMessage" THEN "responded" ELSE "streaming"]
  /\ UNCHANGED <<step, phase, stdout, runResult>>

\* the transport: one more chunk of an open stream arrives
serverChunk(i) ==
  /\ chatReqs[i].status = "streaming"
  /\ chatReqs[i].arrived < MaxChunks
  /\ chatReqs' = [chatReqs EXCEPT ![i].arrived = @ + 1]
  /\ UNCHANGED <<step, phase, stdout, runResult>>

\* the transport: an open stream completes, or breaks
serverEnd(i, okEnd) ==
  /\ chatReqs[i].status = "streaming"
  /\ chatReqs' = [chatReqs EXCEPT ![i].status = IF okEnd THEN "closed" ELSE "aborted"]
  /\ UNCHANGED <<step, phase, stdout, runResult>>

\* variant of sendResume whose streaming branch returns without the loop
sendResumeNoLoop ==
  /\ Running /\ phase = "awaitResult"
  /\ LET i == Len(chatReqs)
         r == chatReqs[i]
     IN /\ r.status # "pending"
        /\ IF r.status = "failed"
           THEN /\ chatReqs' = [chatReqs EXCEPT ![i].ended = TRUE]
                /\ phase' = "exit" /\ runResult' = "rejected"
                /\ UNCHANGED <<step, stdout>>
           ELSE IF r.kind = "sendMessage"
           THEN /\ chatReqs' = [chatReqs EXCEPT ![i].ended = TRUE]
                /\ stdout' = Append(stdout, <<i, 0>>)
                /\ step' = step + 1 /\ phase' = "call"
                /\ UNCHANGED runResult
           ELSE /\ step' = step + 1 /\ phase' = "call"
                /\ UNCHANGED <<chatReqs, stdout, runResult>>

\* the continuation of `await chat.sendMessage(message)` /
\* `await chat.sendMessageStream(message)`
sendResume ==
  /\ Running /\ phase = "awaitResult"
  /\ LET i == Len(chatReqs)
         r == chatReqs[i]
     IN /\ r.status # "pending"
        /\ IF r.status = "failed"
           THEN /\ chatReqs' = [chatReqs EXCEPT ![i].ended = TRUE]
                /\ phase' = "exit" /\ runResult' = "rejected"
                /\ UNCHANGED <<step, stdout>>
           ELSE IF r.kind = "sendMessage"
           THEN /\ chatReqs' = [chatReqs EXCEPT ![i].ended = TRUE]
                /\ stdout' = Append(stdout, <<i, 0>>)
                /\ step' = step + 1 /\ phase' = "call"
                /\ UNCHANGED runResult
           ELSE /\ phase' = "iterating"
                /\ UNCHANGED <<step, chatReqs, stdout, runResult>>

\* one turn of `for await (const chunk of result.stream)`: write the next
\* chunk, leave the loop at the end of the stream, or rethrow its failure
streamNext ==
  /\ Running /\ phase = "iterating"
  /\ LET i == Len(chatReqs)
         r == chatReqs[i]
     IN IF r.read < r.arrived
        THEN /\ chatReqs' = [chatReqs EXCEPT ![i].read = @ + 1]
             /\ stdout' = Append(stdout, <<i, r.read + 1>>)
             /\ UNCHANGED <<step, phase, runResult>>
        ELSE /\ r.status \in {"closed", "aborted"}
             /\ chatReqs' = [chatReqs EXCEPT ![i].ended = TRUE]
             /\ IF r.status = "closed"
                THEN step' = step + 1 /\ phase' = "call" /\ UNCHANGED runResult
                ELSE phase' = "exit" /\ runResult' = "rejected" /\ UNCHANGED step
             /\ UNCHANGED stdout

\* runAll returns after its last await
runAllDone ==
  /\ Running /\ phase = "call" /\ step = Len(Program) + 1
  /\ phase' = "exit" /\ runResult' = "fulfilled"
  /\ UNCHANGED <<step, chatReqs, stdout>>

StartChat == startChat /\ UNCHANGED cvars
ReadFile == (\E okRead \in BOOLEAN : readFileSync(okRead)) /\ UNCHANGED cvars
SendCall == sendCall /\ UNCHANGED cvars
ServerRespond ==
  (\E i \in 1..Len(chatReqs), okResp \in BOOLEAN : serverRespond(i, okResp)) /\ UNCHANGED cvars
ServerChunk == (\E i \in 1..Len(chatReqs) : serverChunk(i)) /\ UNCHANGED cvars
ServerEnd ==
  (\E i \in 1..Len(chatReqs), okEnd \in BOOLEAN : serverEnd(i, okEnd)) /\ UNCHANGED cvars
SendResume == sendResume /\ UNCHANGED cvars
StreamNext == streamNext /\ UNCHANGED cvars
RunAllDone == runAllDone /\ UNCHANGED cvars

DriverNext ==
  StartChat \/ ReadFile \/ SendCall \/ ServerRespond \/ ServerChunk \/ ServerEnd
  \/ SendResume \/ StreamNext \/ RunAllDone

DriverSpec == Init /\ [][DriverNext]_vars

\* ------------------------------------------------------------ properties
InputError == "GoogleGenerativeAIRequestInputError"
ClientError == "GoogleGenerativeAIError"
Sent == netCalls >= 1
NameOp == op \in {"get", "update", "delete"}
BodyOp == op \in {"create", "update"}

\* C1: a create call whose options carry both ttlSeconds (any number) and
\* expireTime (a non-empty timestamp) fails with the input-validation error
\* and makes no network call.
C1_BothTtlFieldsRejected ==
  (op = "create" /\ Has(argObj, "ttlSeconds")
     /\ Has(argObj, "expireTime") /\ Len(argObj["expireTime"]) > 0)
    => (netCalls = 0 /\ result = InputError)

\* C2: a body sent by create or update never holds both ttl and expireTime
\* (an expireTime that is the empty string is not counted).
C2_TtlExpireTimeExclusive ==
  (BodyOp /\ Sent)
    => ~(Has(reqBody, "ttl") /\ Has(reqBody, "expireTime") /\ Len(reqBody["expireTime"]) > 0)

\* "<n>s" for the ttlSeconds values of the model, digit by digit
C3_Rendering(n) ==
  IF n = 300 THEN <<"3","0","0","s">>
  ELSE IF n < 10 THEN <<Digits[n + 1], "s">>
  ELSE <<Digits[(n \div 10) + 1], Digits[(n % 10) + 1], "s">>

\* C3: a sent create or update whose input carries ttlSeconds = n has
\* ttl = "<n>s" in its body and no ttlSeconds key.
C3_TtlSecondsSerialized ==
  (BodyOp /\ Sent /\ Has(argObj, "ttlSeconds"))
    => /\ Has(reqBody, "ttl")
       /\ reqBody["ttl"] = C3_Rendering(argObj["ttlSeconds"])
       /\ ~Has(reqBody, "ttlSeconds")

\* C4: for a name cachedContents/<id> the path segment is exactly <id>, and
\* for a bare <id> it is <id>.
C4_PrefixStripped ==
  (NameOp /\ Sent)
    => reqPath = IF startsWith(argName.v, CachedContentsPrefix)
                 THEN SubSeq(argName.v, Len(CachedContentsPrefix) + 1, Len(argName.v))
                 ELSE argName.v

\* C5: get, update and delete with an empty or absent name raise the generic
\* client error and make no network call.
C5_EmptyNameRejected ==
  (NameOp /\ (~argName.has \/ Len(argName.v) = 0))
    => (pc = "done" /\ netCalls = 0 /\ result = ClientError /\ reqTask = "none")

C5_Witness ==
  /\ op = "update" /\ argName.has /\ Len(argName.v) = 0
  /\ argMask.has /\ Has(argObj, "ttlSeconds")
  /\ result = ClientError

\* C6: create without a model (absent or empty) raises the input-validation
\* error and makes no network call.
C6_MissingModelRejected ==
  (op = "create" /\ (~Has(argObj, "model") \/ Len(argObj["model"]) = 0))
    => (pc = "done" /\ netCalls = 0 /\ result = InputError /\ reqTask = "none")

C6_Witness ==
  /\ op = "create" /\ Has(argObj, "model") /\ Len(argObj["model"]) = 0
  /\ ~Has(argObj, "ttlSeconds")
  /\ result = InputError

\* C7: in a sent create, the body's model is models/<identifier> when the
\* identifier holds no slash, and the identifier itself when it holds one.
C7_ModelNormalized ==
  (op = "create" /\ Sent)
    => LET m == argObj["model"]
       IN reqBody["model"] =
            IF \E i \in 1..Len(m) : m[i] = "/" THEN m ELSE ModelsPrefix \o m

C7_Witness ==
  /\ op = "create" /\ Sent /\ pc = "done" /\ result = "ok"
  /\ argObj["model"] = <<"g", "/">>
  /\ reqBody["model"] = <<"g", "/">>

\* the snake-case form of one field name, position by position
C8_Snake(f) ==
  Flatten([i \in 1..Len(f) |->
             IF IsUpper(f[i]) THEN <<"_", toLowerCase(f[i])>> ELSE <<f[i]>>])

\* the comma-separated join of the snake-case forms, in the original order
C8_Expected(mask) ==
  IF Len(mask) = 0 THEN <<>>
  ELSE Flatten([i \in 1..(2 * Len(mask) - 1) |->
                  IF i % 2 = 1 THEN C8_Snake(mask[(i + 1) \div 2]) ELSE Comma])

\* C8: the update_mask parameter of a sent update is the comma-separated
\* join, in order, of the field names with every upper-case letter replaced
\* by an underscore and its lower-case form.
C8_UpdateMaskSnakeCase ==
  (op = "update" /\ Sent /\ argMask.has)
    => reqParams = << <<"update_mask", C8_Expected(argMask.v)>> >>

C8_Witness ==
  /\ op = "update" /\ Sent /\ argMask.has
  /\ argMask.v = << ExpireTimeField, <<"T", "T">> >>
  /\ reqParams = << <<"update_mask",
                      <<"e","x","p","i","r","e","_","t","i","m","e",",","_","t","_","t">> >> >>

\* C9: a call makes at most one network request: none when it fails locally,
\* one otherwise; a failed request is not retried and its failure is the
\* call's result.
C9_State ==
  /\ netCalls <= 1
  /\ (pc = "awaiting") => (netCalls = 1 /\ result = "none")
  /\ (pc = "done") =>
       /\ result \in {InputError, ClientError} <=> netCalls = 0
       /\ result \in {"ok", "RequestError"} <=> netCalls = 1
  /\ (op = "list") => netCalls = 1
  /\ (NameOp /\ argName.has /\ Len(argName.v) > 0) => netCalls = 1
  /\ (op = "create" /\ Has(argObj, "model") /\ Len(argObj["model"]) > 0
        /\ ~(Has(argObj, "ttlSeconds") /\ Has(argObj, "expireTime"))) => netCalls = 1

C9_AtMostOneRequest ==
  /\ []C9_State
  /\ [][(pc = "awaiting") =>
          (pc' = "done" /\ netCalls' = netCalls /\ result' \in {"ok", "RequestError"})]_vars

C9_Witness == pc = "done" /\ op = "update" /\ result = "RequestError" /\ netCalls = 1

\* a request whose whole response its caller has taken
C10_Consumed(r) ==
  /\ r.ended
  /\ (r.kind = "sendMessage") => r.status = "responded"
  /\ (r.kind = "sendMessageStream") => (r.status = "closed" /\ r.read = r.arrived)

C10_Kinds ==
  <<"sendMessage", "sendMessage", "sendMessageStream", "sendMessageStream",
    "sendMessageStream", "sendMessageStream">>

C10_State ==
  /\ Cardinality({ i \in 1..Len(chatReqs) : Outstanding(chatReqs[i]) }) <= 1
  /\ Len(chatReqs) <= Len(C10_Kinds)
  /\ \A i \in 1..Len(chatReqs) : chatReqs[i].kind = C10_Kinds[i]
  /\ \A j \in 1..Len(stdout) : \A k \in 1..Len(stdout) :
       (j < k) => \/ stdout[j][1] < stdout[k][1]
                  \/ (stdout[j][1] = stdout[k][1] /\ stdout[j][2] < stdout[k][2])
  /\ (runResult = "fulfilled") =>
       (Len(chatReqs) = Len(C10_Kinds) /\ \A i \in 1..Len(chatReqs) : C10_Consumed(chatReqs[i]))

\* C10: the driver has at most one chat request outstanding; it issues a
\* request only after every earlier response or stream was consumed to its
\* end, chunks in arrival order, samples in the order of runAll.
C10_OneOutstandingRequest ==
  /\ []C10_State
  /\ [][(Len(chatReqs') > Len(chatReqs)) =>
          \A i \in 1..Len(chatReqs) : C10_Consumed(chatReqs[i])]_vars

C10_Witness ==
  /\ runResult = "fulfilled"
  /\ chatReqs[3].arrived = 2 /\ chatReqs[4].arrived = 1
  /\ Len(stdout) >= 5
====
